---- MODULE Spec2Model ----
(***************************************************************************)
(* A model of the OAuth2 protocol engine of server/server.go: the request  *)
(* validators, the grant dispatch, the redirect and token response         *)
(* builders, the error mapper and the bearer token extractor.              *)
(*                                                                         *)
(* The collaborators (the handler functions of the Server and the token    *)
(* manager) are application code: every call of one returns any of a small *)
(* set of outcomes.  A function of the engine is therefore an operator     *)
(* that yields the SET of its possible results, each result carrying the   *)
(* log of the collaborator calls and engine steps that led to it.          *)
(***************************************************************************)
EXTENDS Integers, Sequences, FiniteSets, TLC

VARIABLES
    s,      \* the Server: its Config and which handler fields are set
    op,     \* the public operation the current request ran ("idle": none)
    in,     \* the input that operation was given
    out,    \* what it returned
    calls,  \* the collaborator calls and engine steps it made, in order
    w       \* the http.ResponseWriter of the current request

vars == <<s, op, in, out, calls, w>>

---------------------------------------------------------------------------
(* Errors.  An error value is its root kind plus how it was wrapped:       *)
(* "none" (a sentinel of the errors package or a collaborator's error),    *)
(* "stack" (perrors.WithStack: same message) or "msg" (perrors.Wrap: the   *)
(* message is prefixed).                                                   *)

Nil == [kind |-> "nil", wrap |-> "none"]

Err(k) == [kind |-> k, wrap |-> "none"]

ErrInvalidRequest          == Err("invalid_request")
ErrUnauthorizedClient      == Err("unauthorized_client")
ErrAccessDenied            == Err("access_denied")
ErrUnsupportedResponseType == Err("unsupported_response_type")
ErrInvalidScope            == Err("invalid_scope")
ErrServerError             == Err("server_error")
ErrUnsupportedGrantType    == Err("unsupported_grant_type")
ErrInvalidGrant            == Err("invalid_grant")
ErrInvalidClient           == Err("invalid_client")
ErrInvalidAuthorizeCode    == Err("invalid authorize code")
ErrInvalidRefreshToken     == Err("invalid refresh token")
ErrExpiredRefreshToken     == Err("expired refresh token")
ErrInvalidAccessToken      == Err("invalid access token")

\* The sentinel HandleAuthorizeRequest and HandleTokenRequest match by message.
NoPermissionText == "no permission to the app"
ErrNoPermission == Err(NoPermissionText)

\* An application error that is no protocol error kind.
ErrInternal == Err("storage unavailable")

\* perrors.Wrap(err, msg): nil stays nil.
Wrap(e) == IF e = Nil THEN Nil ELSE [kind |-> e.kind, wrap |-> "msg"]

\* perrors.WithStack(err): nil stays nil, the message is unchanged.
WithStack(e) ==
    IF e = Nil THEN Nil
    ELSE [kind |-> e.kind, wrap |-> IF e.wrap = "none" THEN "stack" ELSE e.wrap]

\* perrors.Cause(err): the innermost error.
Cause(e) == [kind |-> e.kind, wrap |-> "none"]

\* err.Error() == "no permission to the app"
IsNoPermission(e) == e.kind = NoPermissionText /\ e.wrap # "msg"

\* errors.Descriptions and errors.StatusCodes: the static table of the
\* protocol error kinds.
TableKinds ==
    {"invalid_request", "unauthorized_client", "access_denied",
     "unsupported_response_type", "invalid_scope", "server_error",
     "unsupported_grant_type", "invalid_grant", "invalid_client",
     "invalid authorize code", "invalid refresh token",
     "expired refresh token", "invalid access token"}

Descriptions == [k \in TableKinds |-> "description of " \o k]

StatusCodes ==
    [k \in TableKinds |->
        CASE k \in {"invalid_request", "invalid_scope"} -> 400
          [] k = "access_denied" -> 403
          [] k = "server_error" -> 500
          [] OTHER -> 401]

\* The lookup errors.Descriptions[err]: the map is keyed by the error value,
\* so a wrapped error is not found.
InTable(e) == e.wrap = "none" /\ e.kind \in TableKinds

---------------------------------------------------------------------------
(* The call log.  An entry names the collaborator (or the engine's own     *)
(* step), the arguments that matter and what came back.                    *)

Call(fn, a, val, err) == [fn |-> fn, a |-> a, val |-> val, err |-> err]

\* An engine step that passed (a check of the request or of the Config).
Step(fn) == Call(fn, <<>>, "", Nil)

Names(log) == [i \in 1..Len(log) |-> log[i].fn]

Called(log, fn) == \E i \in 1..Len(log) : log[i].fn = fn

---------------------------------------------------------------------------
(* oauth2 constants.                                                       *)

Code == "code"
Token == "token"

AuthorizationCode   == "authorization_code"
PasswordCredentials == "password"
ClientCredentials   == "client_credentials"
Refreshing          == "refresh_token"
Implicit            == "__implicit"

GrantTypes == {AuthorizationCode, PasswordCredentials, ClientCredentials, Refreshing}
ResponseTypes == {Code, Token}

---------------------------------------------------------------------------
(* Strings.  A redirect URI is a sequence of tokens (see GetRedirectURI);  *)
(* every other string is a TLA+ string, "" the empty one.                  *)

EmptyURI == <<>>

\* oauth2.TokenInfo values the token manager can hand out.  expires is the
\* remaining lifetime as a time.Duration, here in milliseconds.
NoTokenInfo == [access |-> "", refresh |-> "", scope |-> "", expires |-> 0, code |-> ""]

TokenInfos ==
    {[access |-> "tok1", refresh |-> "", scope |-> "", expires |-> 3600500, code |-> "abc123"],
     [access |-> "tok2", refresh |-> "ref2", scope |-> "read", expires |-> 1999, code |-> "c0de"]}

\* oauth2.TokenGenerateRequest
NoTgr ==
    [ClientID |-> "", ClientSecret |-> "", UserID |-> "", RedirectURI |-> EmptyURI,
     Code |-> "", Refresh |-> "", Scope |-> "", AccessTokenExp |-> 0]

---------------------------------------------------------------------------
(* What the collaborators can answer.  A handler field of the Server is    *)
(* "nil" (not configured), "default" (the function NewServer installs) or  *)
(* "set" (an application function, free to answer anything below).         *)

Ret(val, err) == [val |-> val, err |-> err]

\* func(...) (allowed bool, err error)
AllowedOutcomes ==
    {Ret("true", Nil), Ret("false", Nil), Ret("false", ErrInternal),
     Ret("false", ErrNoPermission)}

\* ClientInfoHandler(r) (clientID, clientSecret string, err error)
ClientInfoOutcomes ==
    {Ret("c1", Nil), Ret("", ErrInvalidClient), Ret("", ErrNoPermission)}

\* Default handlers that let a user in.
DefaultDeny_Allow == {Ret("u1", Nil)}

\* The default UserAuthorizationHandler and PasswordAuthorizationHandler of
\* NewServer: return "", errors.ErrAccessDenied
DefaultDeny == {Ret("", ErrAccessDenied)}

\* An application's user or password authorization: a user, nobody, or an error.
UserOutcomes ==
    {Ret("u1", Nil), Ret("", Nil), Ret("", ErrAccessDenied), Ret("", ErrNoPermission),
     Ret("", ErrInternal)}

UserAuthorizationOutcomes ==
    IF s.UserAuthorizationHandler = "default" THEN DefaultDeny ELSE UserOutcomes

PasswordAuthorizationOutcomes ==
    IF s.PasswordAuthorizationHandler = "default" THEN DefaultDeny ELSE UserOutcomes

\* CheckUserPermHandler(userID, clientID) error
CheckUserPermOutcomes == {Ret("", Nil), Ret("", ErrNoPermission), Ret("", ErrInternal)}

\* Manager.GenerateAccessToken / GenerateAuthToken (oauth2.TokenInfo, error)
GenerateOutcomes ==
    {Ret(ti, Nil) : ti \in TokenInfos}
        \cup {Ret(NoTokenInfo, e) :
                e \in {ErrInvalidAuthorizeCode, ErrInvalidClient, ErrInternal}}

\* Manager.LoadRefreshToken / RefreshAccessToken (oauth2.TokenInfo, error)
RefreshOutcomes ==
    {Ret(ti, Nil) : ti \in TokenInfos}
        \cup {Ret(NoTokenInfo, e) :
                e \in {ErrInvalidRefreshToken, ErrExpiredRefreshToken, ErrInternal}}

---------------------------------------------------------------------------
(* Token requests.                                                         *)

\* A CheckGrantType that allows every grant type.
CheckGrantType_AllowAll(gt) == TRUE

\* GrantType.String(): "" for a missing grant type.
GrantTypeString(gt) == gt

\* CheckGrantType check allows grant type
CheckGrantType(gt) == gt \in s.Config.AllowedGrantTypes

\* The result of ValidationTokenRequest; panic: the call of a nil function.
VRes(gt, tgr, err, log, panic) ==
    [gt |-> gt, tgr |-> tgr, err |-> err, calls |-> log, panic |-> panic]

\* A ValidationPassword that asks the PasswordAuthorizationHandler before
\* it looks whether username and password are there.
ValidationPassword_AuthFirst(r, tgr0, log0) ==
    LET tgr == [tgr0 EXCEPT !.Scope = r.scope] IN
    UNION {
        LET log1 == Append(log0, Call("PasswordAuthorizationHandler",
                                      <<r.username, r.password>>, pa.val, pa.err)) IN
        IF r.username = "" \/ r.password = ""
        THEN {VRes("", NoTgr, ErrInvalidRequest, log1, FALSE)}
        ELSE IF pa.err # Nil THEN {VRes("", NoTgr, pa.err, log1, FALSE)}
        ELSE IF pa.val = "" THEN {VRes("", NoTgr, ErrInvalidGrant, log1, FALSE)}
        ELSE IF s.CheckUserPermHandler = "nil"
        THEN {VRes("", NoTgr, Nil, log1, TRUE)}
        ELSE {LET log2 == Append(log1, Call("CheckUserPermHandler",
                                            <<pa.val, r.client_id>>, "", cp.err)) IN
              IF cp.err # Nil THEN VRes("", NoTgr, cp.err, log2, FALSE)
              ELSE VRes(PasswordCredentials, [tgr EXCEPT !.UserID = pa.val],
                        Nil, log2, FALSE)
              : cp \in CheckUserPermOutcomes}
        : pa \in PasswordAuthorizationOutcomes}

\* case oauth2.PasswordCredentials of ValidationTokenRequest
ValidationPassword(r, tgr0, log0) ==
    LET tgr == [tgr0 EXCEPT !.Scope = r.scope] IN
    IF r.username = "" \/ r.password = ""
    THEN {VRes("", NoTgr, ErrInvalidRequest, log0, FALSE)}
    ELSE UNION {
        LET log1 == Append(log0 \o <<Step("ValidateFields")>>,
                           Call("PasswordAuthorizationHandler",
                                <<r.username, r.password>>, pa.val, pa.err)) IN
        IF pa.err # Nil THEN {VRes("", NoTgr, pa.err, log1, FALSE)}
        ELSE IF pa.val = "" THEN {VRes("", NoTgr, ErrInvalidGrant, log1, FALSE)}
        ELSE IF s.CheckUserPermHandler = "nil"
        THEN {VRes("", NoTgr, Nil, log1, TRUE)}
        ELSE {LET log2 == Append(log1, Call("CheckUserPermHandler",
                                            <<pa.val, r.client_id>>, "", cp.err)) IN
              IF cp.err # Nil THEN VRes("", NoTgr, cp.err, log2, FALSE)
              ELSE VRes(PasswordCredentials, [tgr EXCEPT !.UserID = pa.val],
                        Nil, log2, FALSE)
              : cp \in CheckUserPermOutcomes}
        : pa \in PasswordAuthorizationOutcomes}

\* switch gt of ValidationTokenRequest
ValidationGrant(r, gt, tgr, log) ==
    CASE gt = AuthorizationCode ->
            IF r.redirect_uri = EmptyURI \/ r.code = ""
            THEN {VRes("", NoTgr, Wrap(ErrInvalidRequest), log, FALSE)}
            ELSE {VRes(gt, [tgr EXCEPT !.RedirectURI = r.redirect_uri, !.Code = r.code],
                       Nil, log \o <<Step("ValidateFields")>>, FALSE)}
      [] gt = PasswordCredentials -> ValidationPassword(r, tgr, log)
      [] gt = ClientCredentials ->
            {VRes(gt, [tgr EXCEPT !.Scope = r.scope], Nil, log, FALSE)}
      [] gt = Refreshing ->
            IF r.refresh_token = ""
            THEN {VRes("", NoTgr, ErrInvalidRequest, log, FALSE)}
            ELSE {VRes(gt, [tgr EXCEPT !.Refresh = r.refresh_token, !.Scope = r.scope],
                       Nil, log \o <<Step("ValidateFields")>>, FALSE)}
      [] OTHER -> {VRes(gt, tgr, Nil, log, FALSE)}

\* ValidationTokenRequest the token request validation
ValidationTokenRequest(r) ==
    IF ~(r.method = "POST" \/ (s.Config.AllowGetAccessRequest /\ r.method = "GET"))
    THEN {VRes("", NoTgr, Wrap(ErrInvalidRequest), <<>>, FALSE)}
    ELSE IF GrantTypeString(r.grant_type) = ""
    THEN {VRes("", NoTgr, Wrap(ErrUnsupportedGrantType), <<Step("ValidateMethod")>>, FALSE)}
    ELSE UNION {
        LET log == <<Step("ValidateMethod"), Step("ValidateGrantType"),
                     Call("ClientInfoHandler", <<>>, ci.val, ci.err)>> IN
        IF ci.err # Nil THEN {VRes("", NoTgr, WithStack(ci.err), log, FALSE)}
        ELSE ValidationGrant(r, r.grant_type,
                             [NoTgr EXCEPT !.ClientID = ci.val, !.ClientSecret = "secret"],
                             log)
        : ci \in ClientInfoOutcomes}

---------------------------------------------------------------------------
(* Grant dispatch for token requests.                                      *)

\* What GetAccessToken and GetAuthorizeToken return: (oauth2.TokenInfo, error)
TRes(ti, err, log) == [ti |-> ti, err |-> err, calls |-> log]

\* An AccessByCode that hands on every error of the manager as it is.
AccessByCode_Untranslated(gt, tgr, log) ==
    {TRes(g.val, WithStack(g.err),
          Append(log, Call("GenerateAccessToken", <<gt, tgr.ClientID, tgr.UserID>>,
                           g.val.access, g.err)))
     : g \in GenerateOutcomes}

\* case oauth2.AuthorizationCode of GetAccessToken
AccessByCode(gt, tgr, log) ==
    {LET log1 == Append(log, Call("GenerateAccessToken", <<gt, tgr.ClientID, tgr.UserID>>,
                                  g.val.access, g.err)) IN
     IF g.err # Nil
     THEN CASE g.err = ErrInvalidAuthorizeCode ->
                    TRes(NoTokenInfo, WithStack(ErrInvalidGrant), log1)
            [] g.err = ErrInvalidClient ->
                    TRes(NoTokenInfo, WithStack(ErrInvalidClient), log1)
            [] OTHER -> TRes(NoTokenInfo, WithStack(g.err), log1)
     ELSE TRes(g.val, Nil, log1)
     : g \in GenerateOutcomes}

\* return s.Manager.GenerateAccessToken(gt, tgr)
AccessByManager(gt, tgr, log) ==
    {TRes(g.val, g.err,
          Append(log, Call("GenerateAccessToken", <<gt, tgr.ClientID, tgr.UserID>>,
                           g.val.access, g.err)))
     : g \in GenerateOutcomes}

\* case oauth2.PasswordCredentials, oauth2.ClientCredentials of GetAccessToken
AccessByCredentials(gt, tgr, log) ==
    IF s.ClientScopeHandler # "nil"
    THEN UNION {
        LET log1 == Append(log, Call("ClientScopeHandler", <<tgr.ClientID, tgr.Scope>>,
                                     cs.val, cs.err)) IN
        IF cs.err # Nil THEN {TRes(NoTokenInfo, cs.err, log1)}
        ELSE IF cs.val # "true" THEN {TRes(NoTokenInfo, ErrInvalidScope, log1)}
        ELSE AccessByManager(gt, tgr, log1)
        : cs \in AllowedOutcomes}
    ELSE AccessByManager(gt, tgr, log)

\* A RefreshAccess that translates the invalid refresh token only.
RefreshAccess_ExpiredLeaks(tgr, log) ==
    {LET log1 == Append(log, Call("RefreshAccessToken", <<tgr.Refresh, tgr.Scope>>,
                                  g.val.access, g.err)) IN
     IF g.err # Nil
     THEN IF g.err = ErrInvalidRefreshToken
          THEN TRes(NoTokenInfo, ErrInvalidGrant, log1)
          ELSE TRes(NoTokenInfo, g.err, log1)
     ELSE TRes(g.val, Nil, log1)
     : g \in RefreshOutcomes}

\* ti, err := s.Manager.RefreshAccessToken(tgr) and what follows it
RefreshAccess(tgr, log) ==
    {LET log1 == Append(log, Call("RefreshAccessToken", <<tgr.Refresh, tgr.Scope>>,
                                  g.val.access, g.err)) IN
     IF g.err # Nil
     THEN IF g.err = ErrInvalidRefreshToken \/ g.err = ErrExpiredRefreshToken
          THEN TRes(NoTokenInfo, ErrInvalidGrant, log1)
          ELSE TRes(NoTokenInfo, g.err, log1)
     ELSE TRes(g.val, Nil, log1)
     : g \in RefreshOutcomes}

\* An AccessByRefresh that goes on when the RefreshingScopeHandler refuses.
AccessByRefresh_IgnoreRefusal(tgr, log) ==
    IF tgr.Scope # "" /\ s.RefreshingScopeHandler # "nil"
    THEN UNION {
        LET log1 == Append(log, Call("LoadRefreshToken", <<tgr.Refresh>>,
                                     rti.val.access, rti.err)) IN
        IF rti.err # Nil
        THEN IF rti.err = ErrInvalidRefreshToken \/ rti.err = ErrExpiredRefreshToken
             THEN {TRes(NoTokenInfo, ErrInvalidGrant, log1)}
             ELSE {TRes(NoTokenInfo, rti.err, log1)}
        ELSE UNION {
            LET log2 == Append(log1, Call("RefreshingScopeHandler",
                                          <<tgr.Scope, rti.val.scope>>, rs.val, rs.err)) IN
            IF rs.err # Nil THEN {TRes(NoTokenInfo, rs.err, log2)}
            ELSE RefreshAccess(tgr, log2)
            : rs \in AllowedOutcomes}
        : rti \in RefreshOutcomes}
    ELSE RefreshAccess(tgr, log)

\* case oauth2.Refreshing of GetAccessToken
AccessByRefresh(tgr, log) ==
    IF tgr.Scope # "" /\ s.RefreshingScopeHandler # "nil"
    THEN UNION {
        LET log1 == Append(log, Call("LoadRefreshToken", <<tgr.Refresh>>,
                                     rti.val.access, rti.err)) IN
        IF rti.err # Nil
        THEN IF rti.err = ErrInvalidRefreshToken \/ rti.err = ErrExpiredRefreshToken
             THEN {TRes(NoTokenInfo, ErrInvalidGrant, log1)}
             ELSE {TRes(NoTokenInfo, rti.err, log1)}
        ELSE UNION {
            LET log2 == Append(log1, Call("RefreshingScopeHandler",
                                          <<tgr.Scope, rti.val.scope>>, rs.val, rs.err)) IN
            IF rs.err # Nil THEN {TRes(NoTokenInfo, rs.err, log2)}
            ELSE IF rs.val # "true" THEN {TRes(NoTokenInfo, ErrInvalidScope, log2)}
            ELSE RefreshAccess(tgr, log2)
            : rs \in AllowedOutcomes}
        : rti \in RefreshOutcomes}
    ELSE RefreshAccess(tgr, log)

\* switch gt of GetAccessToken
AccessByGrant(gt, tgr, log) ==
    CASE gt = AuthorizationCode -> AccessByCode(gt, tgr, log)
      [] gt \in {PasswordCredentials, ClientCredentials} -> AccessByCredentials(gt, tgr, log)
      [] gt = Refreshing -> AccessByRefresh(tgr, log)
      [] OTHER -> {TRes(NoTokenInfo, ErrUnsupportedGrantType, log)}

\* GetAccessToken access token
GetAccessToken(gt, tgr) ==
    IF ~CheckGrantType(gt)
    THEN {TRes(NoTokenInfo, Wrap(ErrUnauthorizedClient), <<>>)}
    ELSE LET log == <<Step("CheckGrantType")>> IN
         IF s.ClientAuthorizedHandler # "nil"
         THEN UNION {
            LET log1 == Append(log, Call("ClientAuthorizedHandler", <<tgr.ClientID, gt>>,
                                         ca.val, ca.err)) IN
            IF ca.err # Nil THEN {TRes(NoTokenInfo, Wrap(ca.err), log1)}
            ELSE IF ca.val # "true" THEN {TRes(NoTokenInfo, WithStack(ErrUnauthorizedClient), log1)}
            ELSE AccessByGrant(gt, tgr, log1)
            : ca \in AllowedOutcomes}
         ELSE AccessByGrant(gt, tgr, log)

---------------------------------------------------------------------------
(* The error mapper and the token response builder.                        *)

EmptyMap == <<>>

\* The Go zero value of errors.Response.
ZeroResponse ==
    [Error |-> Nil, ErrorCode |-> 0, Description |-> "", URI |-> "", StatusCode |-> 0,
     Header |-> {}]

\* err.Error(): perrors.Wrap prefixes its message.
ErrorText(e) == IF e.wrap = "msg" THEN "context: " \o e.kind ELSE e.kind

\* What an InternalErrorHandler can return: nil, or a response of its own
\* (with or without the Error field set).
InternalErrorOutcomes ==
    {ZeroResponse,
     [Error |-> Err("custom_error"), ErrorCode |-> 1001, Description |-> "custom",
      URI |-> "", StatusCode |-> 503, Header |-> {}],
     [Error |-> Nil, ErrorCode |-> 7, Description |-> "left over", URI |-> "http://e",
      StatusCode |-> 418, Header |-> {"X-Extra"}]}

\* What a ResponseErrorHandler can do to the response it is handed.
ResponseErrorOutcomes(re) ==
    {re,
     [re EXCEPT !.Description = "rewritten", !.URI = "http://doc",
                !.Header = @ \cup {"X-Extra"}],
     [re EXCEPT !.StatusCode = 503]}

\* An ErrorResponse that does not look the error up in the table.
ErrorResponse_NoTable(err) ==
    {[re |-> [ZeroResponse EXCEPT !.Error = ErrServerError,
                                  !.Description = Descriptions[ErrServerError.kind],
                                  !.StatusCode = StatusCodes[ErrServerError.kind]],
      calls |-> <<>>]}

\* GetErrorData, up to the ResponseErrorHandler: the response and the log.
ErrorResponse(err) ==
    IF InTable(err)
    THEN {[re |-> [ZeroResponse EXCEPT !.Error = err,
                                       !.Description = Descriptions[err.kind],
                                       !.StatusCode = StatusCodes[err.kind]],
           calls |-> <<>>]}
    ELSE LET fallback(re) ==
                IF re.Error = Nil
                THEN [re EXCEPT !.Error = ErrServerError,
                                !.Description = Descriptions[ErrServerError.kind],
                                !.StatusCode = StatusCodes[ErrServerError.kind]]
                ELSE re
         IN IF s.InternalErrorHandler # "nil"
            THEN {[re |-> fallback(v),
                   calls |-> <<Call("InternalErrorHandler", <<ErrorText(err)>>,
                                    ErrorText(v.Error), Nil)>>]
                  : v \in InternalErrorOutcomes}
            ELSE {[re |-> fallback(ZeroResponse), calls |-> <<>>]}

\* The field mapping, status and headers GetErrorData builds from the response.
ErrorData(re, log) ==
    [data |-> (IF re.Error # Nil THEN "error" :> ErrorText(re.Error) ELSE EmptyMap)
              @@ (IF re.ErrorCode # 0 THEN "error_code" :> re.ErrorCode ELSE EmptyMap)
              @@ (IF re.Description # "" THEN "error_description" :> re.Description
                  ELSE EmptyMap)
              @@ (IF re.URI # "" THEN "error_uri" :> re.URI ELSE EmptyMap),
     statusCode |-> IF re.StatusCode > 0 THEN re.StatusCode ELSE 500,
     header |-> re.Header,
     calls |-> log]

\* GetErrorData get error response data
GetErrorData(err) ==
    UNION {
        IF s.ResponseErrorHandler # "nil"
        THEN {ErrorData(re2, Append(x.calls, Call("ResponseErrorHandler",
                                                  <<ErrorText(x.re.Error)>>, "", Nil)))
              : re2 \in ResponseErrorOutcomes(x.re)}
        ELSE {ErrorData(x.re, x.calls)}
        : x \in ErrorResponse(err)}

\* time.Second, in the unit of TokenInfo's expires.
Second == 1000

\* int64(d / time.Second): Go's integer division truncates toward zero.
Seconds(d) == IF d >= 0 THEN d \div Second ELSE -((-d) \div Second)

\* What an ExtensionFieldsHandler can return.
ExtensionOutcomes ==
    {EmptyMap,
     "extra" :> "x",
     ("access_token" :> "forged") @@ ("extra" :> "x"),
     ("scope" :> "admin") @@ ("refresh_token" :> "forged")}

\* A MergeExtension in which the extension replaces what is present.
MergeExtension_ExtensionWins(data, ext) ==
    [k \in DOMAIN data \cup DOMAIN ext |-> IF k \in DOMAIN ext THEN ext[k] ELSE data[k]]

\* for k, v := range ext: a key already present is kept.
MergeExtension(data, ext) ==
    [k \in DOMAIN data \cup DOMAIN ext |-> IF k \in DOMAIN data THEN data[k] ELSE ext[k]]

\* GetTokenData token data (ext: what the ExtensionFieldsHandler returned,
\* kept as a record of the run)
GetTokenData(ti) ==
    LET data == ("access_token" :> ti.access)
                @@ ("token_type" :> s.Config.TokenType)
                @@ ("expires_in" :> Seconds(ti.expires))
                @@ (IF ti.scope # "" THEN "scope" :> ti.scope ELSE EmptyMap)
                @@ (IF ti.refresh # "" THEN "refresh_token" :> ti.refresh ELSE EmptyMap)
    IN IF s.ExtensionFieldsHandler # "nil"
       THEN {[data |-> MergeExtension(data, ext),
              calls |-> <<Call("ExtensionFieldsHandler", <<ti.access>>, "", Nil)>>,
              ext |-> ext]
             : ext \in ExtensionOutcomes}
       ELSE {[data |-> data, calls |-> <<>>, ext |-> EmptyMap]}

---------------------------------------------------------------------------
(* The response writer.                                                    *)

\* A fresh http.ResponseWriter: no header set, WriteHeader not called
\* (status 0), nothing written.
NewWriter ==
    [status |-> 0, hasLocation |-> FALSE, Location |-> EmptyURI, ContentType |-> "",
     extra |-> {}, wrote |-> FALSE, body |-> EmptyMap]

\* A token that answers 200 whatever the status it is given.
token_AlwaysOK(w0, data, header, statusCode) ==
    [w0 EXCEPT !.ContentType = "application/json;charset=UTF-8",
               !.extra = @ \cup {"Cache-Control", "Pragma"} \cup header,
               !.status = 200,
               !.wrote = TRUE,
               !.body = data]

\* token: the JSON response of the token endpoint
token(w0, data, header, statusCode) ==
    [w0 EXCEPT !.ContentType = "application/json;charset=UTF-8",
               !.extra = @ \cup {"Cache-Control", "Pragma"} \cup header,
               !.status = IF statusCode > 0 THEN statusCode ELSE 200,
               !.wrote = TRUE,
               !.body = data]

\* tokenError: the error mapped by GetErrorData, written by token
tokenError(w0, err) ==
    {[w |-> token(w0, e.data, e.header, e.statusCode), calls |-> e.calls]
     : e \in GetErrorData(err)}

---------------------------------------------------------------------------
(* Redirect URIs.  A URI string is a sequence of tokens: the delimiters    *)
(* "?", "#", "&", "=" and atoms (a scheme://host/path, a key, a value).    *)
(* The atom "%zz" is a malformed percent escape.                           *)

\* strings.Contains(uri, tok)
Contains(uri, tok) == \E i \in 1..Len(uri) : uri[i] = tok

\* The index of the first tok in uri, Len(uri) + 1 when there is none.
IndexOf(uri, tok) ==
    IF Contains(uri, tok)
    THEN CHOOSE i \in 1..Len(uri) : uri[i] = tok /\ \A j \in 1..(i - 1) : uri[j] # tok
    ELSE Len(uri) + 1

Before(uri, tok) == SubSeq(uri, 1, IndexOf(uri, tok) - 1)

After(uri, tok) == SubSeq(uri, IndexOf(uri, tok) + 1, Len(uri))

\* url.QueryEscape of an atom: a space becomes "+", "&" becomes "%26".
QueryEscape(a) ==
    CASE a = "a b" -> "a+b"
      [] a = "x&y" -> "x%26y"
      [] OTHER -> a

\* url.QueryUnescape of an atom.
QueryUnescape(a) ==
    CASE a = "a+b" -> "a b"
      [] a = "x%26y" -> "x&y"
      [] OTHER -> a

\* The escaping of a fragment by URL.String: a space becomes "%20", "&" stays.
FragmentEscape(a) == IF a = "a b" THEN "a%20b" ELSE a

\* url.Parse: the fragment is what follows the first "#", the raw query what
\* follows the first "?" before it.  A malformed escape in the path or in the
\* fragment is an error; the raw query is not looked at.
Parse(uri) ==
    LET head == Before(uri, "#")
        path == Before(head, "?")
        frag == After(uri, "#")
    IN [ok |-> ~Contains(path, "%zz") /\ ~Contains(frag, "%zz"),
        Path |-> path,
        RawQuery |-> After(head, "?"),
        ForceQuery |-> Contains(head, "?") /\ After(head, "?") = <<>>,
        Fragment |-> frag]

\* url.ParseQuery: the pairs key "=" value between "&"s; a later value of a
\* key is appended after an earlier one, Values.Get and Set see the first.
RECURSIVE ParseQuery(_)
ParseQuery(raw) ==
    IF raw = <<>> THEN EmptyMap
    ELSE LET pair == Before(raw, "&")
             rest == ParseQuery(After(raw, "&"))
         IN IF pair = <<>> THEN rest
            ELSE (QueryUnescape(pair[1]) :>
                    IF Len(pair) >= 3 THEN QueryUnescape(pair[3]) ELSE "")
                 @@ rest

\* u.Query()
Query(u) == ParseQuery(u.RawQuery)

\* The keys a redirect can carry, in the byte order Values.Encode sorts by.
KeyOrder ==
    <<"access_token", "code", "error", "error_code", "error_description", "error_uri",
      "expires_in", "extra", "k", "refresh_token", "scope", "state", "token_type">>

\* Values.Encode: "k=v" joined by "&", sorted by key, keys and values escaped.
RECURSIVE EncodeFrom(_, _)
EncodeFrom(q, i) ==
    IF i > Len(KeyOrder) THEN <<>>
    ELSE LET rest == EncodeFrom(q, i + 1) IN
         IF KeyOrder[i] \in DOMAIN q
         THEN <<QueryEscape(KeyOrder[i]), "=", QueryEscape(q[KeyOrder[i]])>>
                \o (IF rest = <<>> THEN <<>> ELSE <<"&">> \o rest)
         ELSE rest

Encode(q) == EncodeFrom(q, 1)

\* fmt.Sprint(v) of a value of the data mapping.
Sprint(k, v) == IF k \in {"expires_in", "error_code"} THEN ToString(v) ELSE v

\* q.Set(k, v): the value replaces what the key had.
SetAll(q, data) ==
    [k \in DOMAIN q \cup DOMAIN data |->
        IF k \in DOMAIN data THEN Sprint(k, data[k]) ELSE q[k]]

\* URL.String
String(u) ==
    u.Path
        \o (IF u.ForceQuery \/ u.RawQuery # <<>> THEN <<"?">> \o u.RawQuery ELSE <<>>)
        \o (IF u.Fragment # <<>>
            THEN <<"#">> \o [i \in 1..Len(u.Fragment) |-> FragmentEscape(u.Fragment[i])]
            ELSE <<>>)

\* A GetRedirectURI that leaves the state out.
GetRedirectURI_NoState(req, data) ==
    LET u == Parse(req.RedirectURI)
        q0 == IF Contains(req.RedirectURI, "#") THEN EmptyMap ELSE Query(u)
        q == SetAll(q0, data)
        enc == Encode(q)
    IN IF ~u.ok THEN [uri |-> EmptyURI, ok |-> FALSE]
       ELSE CASE req.ResponseType = Code ->
                    IF Contains(req.RedirectURI, "#")
                    THEN [uri |-> req.RedirectURI \o <<"?">> \o enc, ok |-> TRUE]
                    ELSE [uri |-> String([u EXCEPT !.RawQuery = enc]), ok |-> TRUE]
              [] req.ResponseType = Token ->
                    [uri |-> String([u EXCEPT !.RawQuery = <<>>,
                                              !.Fragment = [i \in 1..Len(enc) |->
                                                                QueryUnescape(enc[i])]]),
                     ok |-> TRUE]
              [] OTHER -> [uri |-> String(u), ok |-> TRUE]

\* A GetRedirectURI that answers the token response type in the query.
GetRedirectURI_TokenInQuery(req, data) ==
    LET u == Parse(req.RedirectURI)
        q0 == IF Contains(req.RedirectURI, "#") THEN EmptyMap ELSE Query(u)
        q1 == IF req.State # "" THEN ("state" :> req.State) @@ q0 ELSE q0
        q == SetAll(q1, data)
        enc == Encode(q)
    IN IF ~u.ok THEN [uri |-> EmptyURI, ok |-> FALSE]
       ELSE CASE req.ResponseType \in {Code, Token} ->
                    IF Contains(req.RedirectURI, "#")
                    THEN [uri |-> req.RedirectURI \o <<"?">> \o enc, ok |-> TRUE]
                    ELSE [uri |-> String([u EXCEPT !.RawQuery = enc]), ok |-> TRUE]
              [] OTHER -> [uri |-> String(u), ok |-> TRUE]

\* GetRedirectURI get redirect uri
GetRedirectURI(req, data) ==
    LET u == Parse(req.RedirectURI)
        q0 == IF Contains(req.RedirectURI, "#") THEN EmptyMap ELSE Query(u)
        q1 == IF req.State # "" THEN ("state" :> req.State) @@ q0 ELSE q0
        q == SetAll(q1, data)
        enc == Encode(q)
    IN IF ~u.ok THEN [uri |-> EmptyURI, ok |-> FALSE]
       ELSE CASE req.ResponseType = Code ->
                    IF Contains(req.RedirectURI, "#")
                    THEN [uri |-> req.RedirectURI \o <<"?">> \o enc, ok |-> TRUE]
                    ELSE [uri |-> String([u EXCEPT !.RawQuery = enc]), ok |-> TRUE]
              [] req.ResponseType = Token ->
                    [uri |-> String([u EXCEPT !.RawQuery = <<>>,
                                              !.Fragment = [i \in 1..Len(enc) |->
                                                                QueryUnescape(enc[i])]]),
                     ok |-> TRUE]
              [] OTHER -> [uri |-> String(u), ok |-> TRUE]

---------------------------------------------------------------------------
(* The token endpoint.                                                     *)

\* What a Handle... operation leaves behind: its return values, the writer,
\* the log; panic: it did not return (a nil function was called).
HRes(access, err, w1, log, panic) ==
    [access |-> access, err |-> err, w |-> w1, calls |-> log, panic |-> panic,
     fail |-> Nil, stage |-> ""]

\* The same result, noting the error that ended the request and the stage
\* of the handler that met it (a record of the run, not a Go value).
Failed(stage, cause, res) == [res EXCEPT !.fail = cause, !.stage = stage]

\* return "", s.tokenError(w, perrors.Cause(err))
TokenFailure(w0, err, log) ==
    {HRes("", Nil, e.w, log \o e.calls, FALSE) : e \in tokenError(w0, Cause(err))}

\* HandleTokenRequest token request handling
HandleTokenRequest(w0, r) ==
    UNION {
        IF v.panic THEN {HRes("", Nil, w0, v.calls, TRUE)}
        ELSE IF v.err # Nil
        THEN IF IsNoPermission(v.err)
             THEN {Failed("validation", v.err, HRes("", v.err, w0, v.calls, FALSE))}
             ELSE {Failed("validation", v.err, x) : x \in TokenFailure(w0, v.err, v.calls)}
        ELSE UNION {
            IF a.err # Nil
            THEN {Failed("grant", a.err, x)
                  : x \in TokenFailure(w0, a.err, v.calls \o a.calls)}
            ELSE {HRes(a.ti.access, Nil, token(w0, d.data, {}, 0),
                       v.calls \o a.calls \o d.calls, FALSE)
                  : d \in GetTokenData(a.ti)}
            : a \in GetAccessToken(v.gt, v.tgr)}
        : v \in ValidationTokenRequest(r)}

\* The token requests the model sends: per grant type, the form fields that
\* grant reads, each present or missing.
TokenRequest(method, gt, client_id, uri, code, username, password, scope, refresh) ==
    [method |-> method, grant_type |-> gt, client_id |-> client_id, redirect_uri |-> uri,
     code |-> code, username |-> username, password |-> password, scope |-> scope,
     refresh_token |-> refresh]

Methods == {"GET", "POST", "PUT"}

RedirectURIs == {EmptyURI, <<"https://app/cb">>}

Scopes == {"", "admin"}

\* Every combination for GET and POST; for a method no validator accepts,
\* one complete request per grant type and one without a grant type.
TokenRequests ==
    {TokenRequest(m, gt, "", EmptyURI, "", "", "", "", "")
        : m \in Methods \ {"PUT"}, gt \in {"", "device_code"}}
    \cup {TokenRequest(m, AuthorizationCode, "", u, c, "", "", "", "")
        : m \in Methods \ {"PUT"}, u \in RedirectURIs, c \in {"", "abc123"}}
    \cup {TokenRequest(m, PasswordCredentials, cid, EmptyURI, "", un, pw, sc, "")
        : m \in Methods \ {"PUT"}, cid \in {"c1", "c2"}, un \in {"", "alice"},
          pw \in {"", "pw"}, sc \in Scopes}
    \cup {TokenRequest(m, ClientCredentials, "", EmptyURI, "", "", "", sc, "")
        : m \in Methods \ {"PUT"}, sc \in Scopes}
    \cup {TokenRequest(m, Refreshing, "", EmptyURI, "", "", "", sc, rt)
        : m \in Methods \ {"PUT"}, sc \in Scopes, rt \in {"", "ref1"}}
    \cup {TokenRequest("PUT", gt, "c1", <<"https://app/cb">>, "abc123", "alice", "pw", "",
                        "ref1")
        : gt \in GrantTypes \cup {""}}

---------------------------------------------------------------------------
(* The authorization endpoint.                                             *)

\* ResponseType.String(): the type itself for code and token, "" otherwise.
ResponseTypeString(rt) == IF rt \in {Code, Token} THEN rt ELSE ""

\* A CheckResponseType that allows every response type.
CheckResponseType_AllowAll(rt) == TRUE

\* CheckResponseType check allows response type
CheckResponseType(rt) == rt \in s.Config.AllowedResponseTypes

NoAuthorizeRequest ==
    [RedirectURI |-> EmptyURI, ResponseType |-> "", ClientID |-> "", State |-> "",
     Scope |-> "", UserID |-> "", AccessTokenExp |-> 0, nil |-> TRUE]

\* A ValidationAuthorizeRequest without the check of the allow-list.
ValidationAuthorizeRequest_NoAllowList(r) ==
    IF ~(r.method = "GET" \/ r.method = "POST") \/ r.client_id = ""
    THEN [req |-> NoAuthorizeRequest, err |-> ErrInvalidRequest, calls |-> <<>>]
    ELSE IF ResponseTypeString(r.response_type) = ""
    THEN [req |-> NoAuthorizeRequest, err |-> ErrUnsupportedResponseType,
          calls |-> <<Step("ValidateRequest")>>]
    ELSE [req |-> [RedirectURI |-> r.redirect_uri, ResponseType |-> r.response_type,
                   ClientID |-> r.client_id, State |-> r.state, Scope |-> r.scope,
                   UserID |-> "", AccessTokenExp |-> 0, nil |-> FALSE],
          err |-> Nil,
          calls |-> <<Step("ValidateRequest"), Step("CheckResponseType")>>]

\* ValidationAuthorizeRequest the authorization request validation
ValidationAuthorizeRequest(r) ==
    IF ~(r.method = "GET" \/ r.method = "POST") \/ r.client_id = ""
    THEN [req |-> NoAuthorizeRequest, err |-> ErrInvalidRequest, calls |-> <<>>]
    ELSE IF ResponseTypeString(r.response_type) = ""
    THEN [req |-> NoAuthorizeRequest, err |-> ErrUnsupportedResponseType,
          calls |-> <<Step("ValidateRequest")>>]
    ELSE IF ~CheckResponseType(r.response_type)
    THEN [req |-> NoAuthorizeRequest, err |-> ErrUnauthorizedClient,
          calls |-> <<Step("ValidateRequest")>>]
    ELSE [req |-> [RedirectURI |-> r.redirect_uri, ResponseType |-> r.response_type,
                   ClientID |-> r.client_id, State |-> r.state, Scope |-> r.scope,
                   UserID |-> "", AccessTokenExp |-> 0, nil |-> FALSE],
          err |-> Nil,
          calls |-> <<Step("ValidateRequest"), Step("CheckResponseType")>>]

\* return s.Manager.GenerateAuthToken(req.ResponseType, tgr)
AuthTokenByManager(req, log) ==
    {TRes(g.val, g.err,
          Append(log, Call("GenerateAuthToken",
                           <<req.ResponseType, req.ClientID, req.UserID, req.Scope>>,
                           g.val.access, g.err)))
     : g \in GenerateOutcomes}

\* An AuthTokenByScope that asks the manager for the token before it asks
\* the ClientScopeHandler.
AuthTokenByScope_ManagerFirst(req, log) ==
    UNION {
        IF s.ClientScopeHandler # "nil"
        THEN {LET log1 == Append(m.calls, Call("ClientScopeHandler",
                                               <<req.ClientID, req.Scope>>, cs.val, cs.err)) IN
              IF cs.err # Nil THEN TRes(NoTokenInfo, cs.err, log1)
              ELSE IF cs.val # "true" THEN TRes(NoTokenInfo, ErrInvalidScope, log1)
              ELSE TRes(m.ti, m.err, log1)
              : cs \in AllowedOutcomes}
        ELSE {m}
        : m \in AuthTokenByManager(req, log)}

\* GetAuthorizeToken, from the check of the authorized scope on
AuthTokenByScope(req, log) ==
    IF s.ClientScopeHandler # "nil"
    THEN UNION {
        LET log1 == Append(log, Call("ClientScopeHandler", <<req.ClientID, req.Scope>>,
                                     cs.val, cs.err)) IN
        IF cs.err # Nil THEN {TRes(NoTokenInfo, cs.err, log1)}
        ELSE IF cs.val # "true" THEN {TRes(NoTokenInfo, ErrInvalidScope, log1)}
        ELSE AuthTokenByManager(req, log1)
        : cs \in AllowedOutcomes}
    ELSE AuthTokenByManager(req, log)

\* GetAuthorizeToken get authorization token(code)
GetAuthorizeToken(req) ==
    IF s.ClientAuthorizedHandler # "nil"
    THEN UNION {
        LET gt == IF req.ResponseType = Token THEN Implicit ELSE AuthorizationCode
            log1 == <<Call("ClientAuthorizedHandler", <<req.ClientID, gt>>, ca.val, ca.err)>>
        IN IF ca.err # Nil THEN {TRes(NoTokenInfo, ca.err, log1)}
           ELSE IF ca.val # "true" THEN {TRes(NoTokenInfo, ErrUnauthorizedClient, log1)}
           ELSE AuthTokenByScope(req, log1)
        : ca \in AllowedOutcomes}
    ELSE AuthTokenByScope(req, <<>>)

\* GetAuthorizeData get authorization response data
GetAuthorizeData(rt, ti) ==
    IF rt = Code
    THEN {[data |-> "code" :> ti.code, calls |-> <<>>]}
    ELSE GetTokenData(ti)

\* redirect: the 302 to the redirect URI carrying data
redirect(w0, req, data, log) ==
    LET loc == GetRedirectURI(req, data) IN
    IF ~loc.ok THEN HRes("", ErrInternal, w0, log, FALSE)
    ELSE HRes("", Nil,
              [w0 EXCEPT !.hasLocation = TRUE, !.Location = loc.uri, !.status = 302],
              log, FALSE)

\* redirectError: the error mapped by GetErrorData, carried by a redirect
redirectError(w0, req, err, log) ==
    IF req.nil THEN {HRes("", err, w0, log, FALSE)}
    ELSE {redirect(w0, req, e.data, log \o e.calls) : e \in GetErrorData(err)}

\* What AuthorizeScopeHandler, AccessTokenExpHandler and Manager.GetClient
\* can answer.
AuthorizeScopeOutcomes == {Ret("", Nil), Ret("read", Nil), Ret("", ErrInternal)}

AccessTokenExpOutcomes == {Ret(7200000, Nil), Ret(0, ErrInternal)}

GetClientOutcomes == {Ret(<<"https://client/home">>, Nil), Ret(EmptyURI, ErrInternal)}

\* HandleAuthorizeRequest, from ti, err := s.GetAuthorizeToken(req) on
AuthorizeGrant(w0, req, log) ==
    UNION {
        IF a.err # Nil
        THEN {Failed("grant", a.err, x) : x \in redirectError(w0, req, a.err, log \o a.calls)}
        ELSE UNION {
            IF req.RedirectURI = EmptyURI
            THEN {LET log1 == Append(log \o a.calls,
                                     Call("GetClient", <<req.ClientID>>, "", c.err)) IN
                  IF c.err # Nil
                  THEN Failed("client", c.err, HRes("", c.err, w0, log1, FALSE))
                  ELSE redirect(w0, [req EXCEPT !.RedirectURI = c.val], d.data,
                                log1 \o d.calls)
                  : c \in GetClientOutcomes}
            ELSE {redirect(w0, req, d.data, log \o a.calls \o d.calls)}
            : d \in GetAuthorizeData(req.ResponseType, a.ti)}
        : a \in GetAuthorizeToken(req)}

\* HandleAuthorizeRequest, from the expiration time of the access token on
AuthorizeExp(w0, req, log) ==
    IF s.AccessTokenExpHandler # "nil"
    THEN UNION {
        LET log1 == Append(log, Call("AccessTokenExpHandler", <<>>, "", x.err)) IN
        IF x.err # Nil THEN {Failed("exp", x.err, HRes("", x.err, w0, log1, FALSE))}
        ELSE AuthorizeGrant(w0, [req EXCEPT !.AccessTokenExp = x.val], log1)
        : x \in AccessTokenExpOutcomes}
    ELSE AuthorizeGrant(w0, req, log)

\* HandleAuthorizeRequest, from the scope of authorization on
AuthorizeScope(w0, req, log) ==
    IF s.AuthorizeScopeHandler # "nil"
    THEN UNION {
        LET log1 == Append(log, Call("AuthorizeScopeHandler", <<>>, sc.val, sc.err)) IN
        IF sc.err # Nil THEN {Failed("scope", sc.err, HRes("", sc.err, w0, log1, FALSE))}
        ELSE AuthorizeExp(w0, IF sc.val # "" THEN [req EXCEPT !.Scope = sc.val] ELSE req,
                          log1)
        : sc \in AuthorizeScopeOutcomes}
    ELSE AuthorizeExp(w0, req, log)

\* w.Header().Set("Location", "/ui/403?"+err.Error())
ForbiddenURI == <<"/ui/403", "?", NoPermissionText>>

\* A HandleAuthorizeRequest that goes on with an empty user ID.
HandleAuthorizeRequest_EmptyUserGoesOn(w0, r) ==
    LET v == ValidationAuthorizeRequest(r) IN
    IF v.err # Nil
    THEN {Failed("validation", v.err, x) : x \in redirectError(w0, v.req, v.err, v.calls)}
    ELSE UNION {
        LET log == Append(v.calls, Call("UserAuthorizationHandler", <<>>, ua.val, ua.err)) IN
        IF ua.err # Nil
        THEN IF IsNoPermission(ua.err)
             THEN {Failed("user", ua.err,
                          HRes("", Nil,
                               [w0 EXCEPT !.hasLocation = TRUE, !.Location = ForbiddenURI,
                                          !.status = 302],
                               log, FALSE))}
             ELSE {Failed("user", ua.err, x) : x \in redirectError(w0, v.req, ua.err, log)}
        ELSE AuthorizeScope(w0, [v.req EXCEPT !.UserID = ua.val], log)
        : ua \in UserAuthorizationOutcomes}

\* HandleAuthorizeRequest the authorization request handling
HandleAuthorizeRequest(w0, r) ==
    LET v == ValidationAuthorizeRequest(r) IN
    IF v.err # Nil
    THEN {Failed("validation", v.err, x) : x \in redirectError(w0, v.req, v.err, v.calls)}
    ELSE UNION {
        LET log == Append(v.calls, Call("UserAuthorizationHandler", <<>>, ua.val, ua.err)) IN
        IF ua.err # Nil
        THEN IF IsNoPermission(ua.err)
             THEN {Failed("user", ua.err,
                          HRes("", Nil,
                               [w0 EXCEPT !.hasLocation = TRUE, !.Location = ForbiddenURI,
                                          !.status = 302],
                               log, FALSE))}
             ELSE {Failed("user", ua.err, x) : x \in redirectError(w0, v.req, ua.err, log)}
        ELSE IF ua.val = "" THEN {HRes("", Nil, w0, log, FALSE)}
        ELSE AuthorizeScope(w0, [v.req EXCEPT !.UserID = ua.val], log)
        : ua \in UserAuthorizationOutcomes}

\* The authorization requests the model sends: every combination for GET
\* and POST; for a method the validator does not accept, one redirect URI
\* and state with every client_id and response_type.
AuthorizeRequests ==
    [method : Methods \ {"PUT"},
     redirect_uri : {EmptyURI, <<"https://app/cb">>, <<"https://app/cb", "?", "k", "=", "v">>,
                     <<"https://app/cb", "#", "frag">>, <<"%zz">>},
     client_id : {"", "c1"},
     response_type : {"", Code, Token, "id_token"},
     state : {"", "xyz"},
     scope : {""}]
    \cup [method : {"PUT"},
          redirect_uri : {<<"https://app/cb">>},
          client_id : {"", "c1"},
          response_type : {"", Code, Token, "id_token"},
          state : {"xyz"},
          scope : {""}]

---------------------------------------------------------------------------
(* Bearer tokens.  An Authorization header is the sequence of its scheme   *)
(* (with the space that ends it) and what follows; <<>> is no header.      *)

\* strings.HasPrefix(auth, prefix)
HasPrefix(auth, prefix) == Len(auth) >= 1 /\ auth[1] = prefix

\* auth[len(prefix):]
TrimPrefix(auth) == IF Len(auth) >= 2 THEN auth[2] ELSE ""

\* A BearerAuth that turns to the form field when the header names no token.
BearerAuth_FallsBack(r) ==
    LET auth == r.Authorization
        fromHeader == IF auth # <<>> /\ HasPrefix(auth, "Bearer ") THEN TrimPrefix(auth) ELSE ""
        tok == IF fromHeader # "" THEN fromHeader ELSE r.access_token
    IN [token |-> tok, ok |-> tok # ""]

\* BearerAuth parse bearer token
BearerAuth(r) ==
    LET auth == r.Authorization
        tok == IF auth # <<>> /\ HasPrefix(auth, "Bearer ")
               THEN TrimPrefix(auth)
               ELSE r.access_token
    IN [token |-> tok, ok |-> tok # ""]

\* Manager.LoadAccessToken (oauth2.TokenInfo, error)
LoadAccessOutcomes ==
    {Ret(ti, Nil) : ti \in TokenInfos}
        \cup {Ret(NoTokenInfo, e) : e \in {ErrInvalidAccessToken, ErrInternal}}

\* ValidationBearerToken validation the bearer tokens
ValidationBearerToken(r) ==
    LET b == BearerAuth(r) IN
    IF ~b.ok
    THEN {TRes(NoTokenInfo, ErrInvalidAccessToken, <<>>)}
    ELSE {TRes(g.val, g.err,
               <<Call("LoadAccessToken", <<b.token>>, g.val.access, g.err)>>)
          : g \in LoadAccessOutcomes}

\* The requests of a protected resource: the Authorization header and the
\* access_token form field, each present or not.
BearerRequests ==
    [Authorization : {<<>>, <<"Bearer ", "tok1">>, <<"Bearer ">>, <<"Basic ", "abc">>,
                      <<"bearer ", "tok1">>},
     access_token : {"", "tok2"}]

---------------------------------------------------------------------------
(* The state machine.                                                      *)

\* NewConfig / a Config of the application's choice.
Config(rts, gts, get) ==
    [AllowedResponseTypes |-> rts, AllowedGrantTypes |-> gts, TokenType |-> "Bearer",
     AllowGetAccessRequest |-> get]

\* The Configs NewServer is given: every set of response types; the grant
\* types all allowed, all but one, or none; GET allowed or not.
Configs ==
    {Config(rts, GrantTypes, FALSE) : rts \in SUBSET ResponseTypes}
    \cup {Config(ResponseTypes, gts, FALSE)
            : gts \in {{}} \cup {GrantTypes \ {g} : g \in GrantTypes}}
    \cup {Config(ResponseTypes, GrantTypes, TRUE)}

\* The handler fields of the Server that NewServer leaves nil.
OptionalHandlers ==
    {"ClientAuthorizedHandler", "ClientScopeHandler", "RefreshingScopeHandler",
     "ResponseErrorHandler", "InternalErrorHandler", "ExtensionFieldsHandler",
     "AccessTokenExpHandler", "AuthorizeScopeHandler", "CheckUserPermHandler"}

\* The two handlers NewServer installs a denying default for.
DefaultedHandlers == {"UserAuthorizationHandler", "PasswordAuthorizationHandler"}

\* NewServer create authorization server
NewServer(cfg) ==
    [h \in OptionalHandlers |-> "nil"]
        @@ [h \in DefaultedHandlers |-> "default"]
        @@ [Config |-> cfg, ClientInfoHandler |-> "set"]

NoInput == [none |-> TRUE]

NoOutput == [none |-> TRUE]

Init ==
    /\ s \in {NewServer(cfg) : cfg \in Configs}
    /\ op = "idle"
    /\ in = NoInput
    /\ out = NoOutput
    /\ calls = <<>>
    /\ w = NewWriter

\* How many handler fields the application sets.
MaxHandlersSet == 2

HandlersSet == {h \in OptionalHandlers \cup DefaultedHandlers : s[h] = "set"}

\* The application sets a handler field of the Server before serving.
SetHandler ==
    /\ op = "idle"
    /\ Cardinality(HandlersSet) < MaxHandlersSet
    /\ \E h \in OptionalHandlers \cup DefaultedHandlers :
          /\ s[h] # "set"
          /\ s' = [s EXCEPT ![h] = "set"]
    /\ UNCHANGED <<op, in, out, calls, w>>

\* One call of HandleTokenRequest(w, r) by the HTTP layer.
DoHandleTokenRequest ==
    /\ op = "idle"
    /\ \E r \in TokenRequests : \E res \in HandleTokenRequest(NewWriter, r) :
          /\ op' = "HandleTokenRequest"
          /\ in' = r
          /\ out' = [access |-> res.access, err |-> res.err, panic |-> res.panic,
                     fail |-> res.fail, stage |-> res.stage]
          /\ calls' = res.calls
          /\ w' = res.w
    /\ UNCHANGED s

\* One call of HandleAuthorizeRequest(w, r) by the HTTP layer.
DoHandleAuthorizeRequest ==
    /\ op = "idle"
    /\ \E r \in AuthorizeRequests : \E res \in HandleAuthorizeRequest(NewWriter, r) :
          /\ op' = "HandleAuthorizeRequest"
          /\ in' = r
          /\ out' = [access |-> res.access, err |-> res.err, panic |-> res.panic,
                     fail |-> res.fail, stage |-> res.stage]
          /\ calls' = res.calls
          /\ w' = res.w
    /\ UNCHANGED s

\* The TokenGenerateRequests and grant types GetAccessToken is called with
\* directly.
DirectTgrs ==
    {[NoTgr EXCEPT !.ClientID = "c1", !.UserID = u, !.Refresh = "ref1", !.Scope = sc,
                   !.RedirectURI = <<"https://app/cb">>, !.Code = "abc123"]
     : u \in {"", "u1"}, sc \in Scopes}

DirectGrantTypes == GrantTypes \cup {Implicit, "device_code"}

\* One direct call of GetAccessToken(gt, tgr).
DoGetAccessToken ==
    /\ op = "idle"
    /\ \E gt \in DirectGrantTypes, tgr \in DirectTgrs : \E res \in GetAccessToken(gt, tgr) :
          /\ op' = "GetAccessToken"
          /\ in' = [gt |-> gt, tgr |-> tgr]
          /\ out' = [ti |-> res.ti, err |-> res.err]
          /\ calls' = res.calls
    /\ UNCHANGED <<s, w>>

\* The AuthorizeRequests GetAuthorizeToken is called with directly.
DirectAuthorizeRequests ==
    {[RedirectURI |-> <<"https://app/cb">>, ResponseType |-> rt, ClientID |-> "c1",
      State |-> "", Scope |-> sc, UserID |-> "u1", AccessTokenExp |-> 0, nil |-> FALSE]
     : rt \in {Code, Token, "id_token"}, sc \in Scopes}

\* One direct call of GetAuthorizeToken(req).
DoGetAuthorizeToken ==
    /\ op = "idle"
    /\ \E req \in DirectAuthorizeRequests : \E res \in GetAuthorizeToken(req) :
          /\ op' = "GetAuthorizeToken"
          /\ in' = req
          /\ out' = [ti |-> res.ti, err |-> res.err]
          /\ calls' = res.calls
    /\ UNCHANGED <<s, w>>

\* The errors GetErrorData is called with directly: every kind of the
\* table, wrapped ones, and errors the table does not know.
ErrorInputs ==
    {Err(k) : k \in TableKinds}
        \cup {ErrInternal, ErrNoPermission, Wrap(ErrInvalidRequest), WithStack(ErrInvalidGrant)}

\* One direct call of GetErrorData(err).
DoGetErrorData ==
    /\ op = "idle"
    /\ \E err \in ErrorInputs : \E e \in GetErrorData(err) :
          /\ op' = "GetErrorData"
          /\ in' = [err |-> err]
          /\ out' = [data |-> e.data, statusCode |-> e.statusCode, header |-> e.header]
          /\ calls' = e.calls
    /\ UNCHANGED <<s, w>>

\* The redirect URIs, states and response data GetRedirectURI is called
\* with directly: a plain URI, ones that carry a query (an empty one, one
\* with a state of its own), one with a fragment, one that does not parse.
RedirectTargets ==
    {<<"https://app/cb">>,
     <<"https://app/cb", "?">>,
     <<"https://app/cb", "?", "k", "=", "v">>,
     <<"https://app/cb", "?", "state", "=", "old", "&", "k", "=", "a+b">>,
     <<"https://app/cb", "#", "frag">>,
     <<"%zz">>}

States == {"", "xyz", "a b", "x&y"}

DirectRedirectRequests ==
    {[RedirectURI |-> u, ResponseType |-> rt, ClientID |-> "c1", State |-> st,
      Scope |-> "", UserID |-> "u1", AccessTokenExp |-> 0, nil |-> FALSE]
     : u \in RedirectTargets, rt \in ResponseTypes, st \in States}

\* One direct call of GetRedirectURI(req, data), data being the
\* GetAuthorizeData of a token of the manager.
DoGetRedirectURI ==
    /\ op = "idle"
    /\ \E req \in DirectRedirectRequests, ti \in TokenInfos :
          \E d \in GetAuthorizeData(req.ResponseType, ti) :
             LET loc == GetRedirectURI(req, d.data) IN
             /\ op' = "GetRedirectURI"
             /\ in' = [req |-> req, data |-> d.data]
             /\ out' = [uri |-> loc.uri, ok |-> loc.ok]
             /\ calls' = d.calls
    /\ UNCHANGED <<s, w>>

\* One direct call of GetTokenData(ti).
DoGetTokenData ==
    /\ op = "idle"
    /\ \E ti \in TokenInfos : \E d \in GetTokenData(ti) :
          /\ op' = "GetTokenData"
          /\ in' = [ti |-> ti]
          /\ out' = [data |-> d.data, ext |-> d.ext]
          /\ calls' = d.calls
    /\ UNCHANGED <<s, w>>

\* One direct call of BearerAuth(r).
DoBearerAuth ==
    /\ op = "idle"
    /\ \E r \in BearerRequests :
          /\ op' = "BearerAuth"
          /\ in' = r
          /\ out' = BearerAuth(r)
          /\ calls' = <<>>
    /\ UNCHANGED <<s, w>>

\* One call of ValidationBearerToken(r).
DoValidationBearerToken ==
    /\ op = "idle"
    /\ \E r \in BearerRequests : \E res \in ValidationBearerToken(r) :
          /\ op' = "ValidationBearerToken"
          /\ in' = r
          /\ out' = [ti |-> res.ti, err |-> res.err]
          /\ calls' = res.calls
    /\ UNCHANGED <<s, w>>

\* The call has returned: nothing of a request outlives it.
Return ==
    /\ op # "idle"
    /\ op' = "idle"
    /\ in' = NoInput
    /\ out' = NoOutput
    /\ calls' = <<>>
    /\ w' = NewWriter
    /\ UNCHANGED s

Next ==
    \/ SetHandler
    \/ DoHandleTokenRequest
    \/ DoHandleAuthorizeRequest
    \/ DoGetAccessToken
    \/ DoGetAuthorizeToken
    \/ DoGetErrorData
    \/ DoGetRedirectURI
    \/ DoGetTokenData
    \/ DoBearerAuth
    \/ DoValidationBearerToken
    \/ Return

Spec == Init /\ [][Next]_vars

---------------------------------------------------------------------------
(* Properties.                                                             *)

\* The handlers and manager operations of the engine's collaborators.
Handlers ==
    OptionalHandlers \cup DefaultedHandlers \cup {"ClientInfoHandler"}

ManagerOps ==
    {"GenerateAuthToken", "GenerateAccessToken", "LoadRefreshToken", "RefreshAccessToken",
     "GetClient", "LoadAccessToken"}

NoneCalled(log, fns) == \A i \in 1..Len(log) : log[i].fn \notin fns

\* C1: for a grant type that is not in Config.AllowedGrantTypes, GetAccessToken
\* fails with UnauthorizedClient (as the cause of the returned error), returns
\* no token and has invoked no handler and no Manager operation.
C1_DisallowedGrantType ==
    (op = "GetAccessToken" /\ in.gt \notin s.Config.AllowedGrantTypes)
        => /\ out.err # Nil
           /\ Cause(out.err) = ErrUnauthorizedClient
           /\ out.ti = NoTokenInfo
           /\ NoneCalled(calls, Handlers \cup ManagerOps)

\* C1's case: a disallowed refreshing grant reaches GetAccessToken of a
\* Server whose ClientAuthorizedHandler is set.
C1_Witness ==
    /\ op = "GetAccessToken"
    /\ in.gt = Refreshing
    /\ in.gt \notin s.Config.AllowedGrantTypes
    /\ s.ClientAuthorizedHandler = "set"
    /\ out.err = Wrap(ErrUnauthorizedClient)

\* What the request named a response type the Config does not allow.
DisallowedResponseType ==
    op = "HandleAuthorizeRequest" /\ in.response_type \notin s.Config.AllowedResponseTypes

\* C2 as stated: for a response type that is not in Config.AllowedResponseTypes
\* (a missing one too), ValidationAuthorizeRequest fails with
\* UnsupportedResponseType or UnauthorizedClient, and HandleAuthorizeRequest
\* invokes no Manager operation.
C2_Original ==
    DisallowedResponseType
        => /\ ValidationAuthorizeRequest(in).err
                \in {ErrUnsupportedResponseType, ErrUnauthorizedClient}
           /\ NoneCalled(calls, ManagerOps)

\* C2 amended: for such a response type ValidationAuthorizeRequest fails with
\* InvalidRequest when the method is neither GET nor POST or client_id is
\* empty, and otherwise with UnsupportedResponseType (no code or token) or
\* UnauthorizedClient (not allowed); HandleAuthorizeRequest returns that error,
\* invokes no handler and no Manager operation and writes nothing.
C2_DisallowedResponseType ==
    DisallowedResponseType
        => LET v == ValidationAuthorizeRequest(in)
               early == in.method \notin {"GET", "POST"} \/ in.client_id = ""
           IN /\ v.req.nil
              /\ early => v.err = ErrInvalidRequest
              /\ (~early /\ in.response_type \notin {Code, Token})
                    => v.err = ErrUnsupportedResponseType
              /\ (~early /\ in.response_type \in {Code, Token})
                    => v.err = ErrUnauthorizedClient
              /\ out.err = v.err
              /\ NoneCalled(calls, Handlers \cup ManagerOps)
              /\ w = NewWriter

\* C2's case: a well-formed request for a code reaches a Server that allows
\* no code and whose UserAuthorizationHandler would accept the user.
C2_Witness ==
    /\ DisallowedResponseType
    /\ in.response_type = Code
    /\ in.method = "GET"
    /\ in.client_id # ""
    /\ s.UserAuthorizationHandler = "set"
    /\ out.err = ErrUnauthorizedClient

\* The response type every GenerateAuthToken of the request was called with
\* is allowed by the Config.
GeneratedOnlyAllowed ==
    \A i \in 1..Len(calls) :
        calls[i].fn = "GenerateAuthToken"
            => calls[i].a[1] \in s.Config.AllowedResponseTypes

\* C3 as stated: in HandleAuthorizeRequest and in GetAuthorizeToken called
\* directly, Manager.GenerateAuthToken is invoked only for a response type of
\* Config.AllowedResponseTypes.
C3_Original ==
    op \in {"HandleAuthorizeRequest", "GetAuthorizeToken"} => GeneratedOnlyAllowed

\* C3 amended: in HandleAuthorizeRequest, Manager.GenerateAuthToken is
\* invoked only for a response type of Config.AllowedResponseTypes
\* (GetAuthorizeToken itself does not look at the allow-list).
C3_GenerateOnlyAllowed ==
    op = "HandleAuthorizeRequest" => GeneratedOnlyAllowed

\* C3's case: HandleAuthorizeRequest had the manager generate a token on a
\* Server that allows only that response type.
C3_Witness ==
    /\ op = "HandleAuthorizeRequest"
    /\ Called(calls, "GenerateAuthToken")
    /\ s.Config.AllowedResponseTypes = {Token}
    /\ in.response_type = Token

\* The stages of a request: 1 the steps of the request validator, 2 the
\* authorization checks, 3 the operations of the token manager; 0 for the
\* rest (the allow-list check of the dispatch, the overrides and hooks).
ValidationSteps ==
    {"ValidateMethod", "ValidateGrantType", "ClientInfoHandler", "ValidateFields",
     "ValidateRequest", "CheckResponseType"}

AuthorizationChecks ==
    {"ClientAuthorizedHandler", "ClientScopeHandler", "RefreshingScopeHandler",
     "PasswordAuthorizationHandler", "UserAuthorizationHandler", "CheckUserPermHandler"}

StageOf(fn) ==
    CASE fn \in ValidationSteps -> 1
      [] fn \in AuthorizationChecks -> 2
      [] fn \in ManagerOps -> 3
      [] OTHER -> 0

InOrder(a, b) == StageOf(a) = 0 \/ StageOf(b) = 0 \/ StageOf(a) <= StageOf(b)

HandledRequest == op \in {"HandleAuthorizeRequest", "HandleTokenRequest"}

\* C4 as stated: within one request every validation step precedes every
\* authorization check, and every authorization check precedes every
\* operation of the token manager.
C4_Original ==
    HandledRequest
        => \A i, j \in 1..Len(calls) : i < j => InOrder(calls[i].fn, calls[j].fn)

\* C4 amended: the same order, but for one pair: in the refreshing grant the
\* manager's LoadRefreshToken precedes the RefreshingScopeHandler check.  No
\* other manager operation (GenerateAuthToken, GenerateAccessToken,
\* RefreshAccessToken, GetClient) precedes an authorization check, and no
\* authorization check precedes a step of the request validator.
C4_StageOrder ==
    HandledRequest
        => \A i, j \in 1..Len(calls) :
              i < j => \/ InOrder(calls[i].fn, calls[j].fn)
                       \/ /\ calls[i].fn = "LoadRefreshToken"
                          /\ calls[j].fn = "RefreshingScopeHandler"
                          /\ in.grant_type = Refreshing

\* C4's case: a refreshing grant that went through validation, the client
\* check, the load of the refresh token, the scope check and the refresh.
C4_Witness ==
    /\ op = "HandleTokenRequest"
    /\ Called(calls, "ClientInfoHandler")
    /\ Called(calls, "ClientAuthorizedHandler")
    /\ Called(calls, "LoadRefreshToken")
    /\ Called(calls, "RefreshingScopeHandler")
    /\ Called(calls, "RefreshAccessToken")

\* The RefreshingScopeHandler was asked and refused, with no error.
ScopeRefused ==
    \E i \in 1..Len(calls) :
        /\ calls[i].fn = "RefreshingScopeHandler"
        /\ calls[i].val = "false"
        /\ calls[i].err = Nil

\* C5: when the RefreshingScopeHandler refuses the scope of a refreshing
\* grant, GetAccessToken fails with InvalidScope and Manager.RefreshAccessToken
\* is not invoked, neither by GetAccessToken nor by the HandleTokenRequest
\* that called it.
C5_ScopeRefused ==
    /\ (op = "GetAccessToken" /\ ScopeRefused)
            => /\ out.err = ErrInvalidScope
               /\ out.ti = NoTokenInfo
               /\ ~Called(calls, "RefreshAccessToken")
    /\ (op = "HandleTokenRequest" /\ ScopeRefused)
            => /\ out.fail = ErrInvalidScope
               /\ ~Called(calls, "RefreshAccessToken")

\* C5's case: a refresh asking for scope "admin" of a token whose scope is
\* "read", refused by the handler.
C5_Witness ==
    /\ op = "GetAccessToken"
    /\ in.gt = Refreshing
    /\ in.tgr.Scope = "admin"
    /\ \E i \in 1..Len(calls) :
          /\ calls[i].fn = "RefreshingScopeHandler"
          /\ calls[i].a = <<"admin", "read">>
          /\ calls[i].val = "false"
          /\ calls[i].err = Nil

\* The manager answered a load or a refresh with an invalid or an expired
\* refresh token.
RefreshTokenErrors == {ErrInvalidRefreshToken, ErrExpiredRefreshToken}

IsRefreshTokenError(c) ==
    c.fn \in {"LoadRefreshToken", "RefreshAccessToken"} /\ c.err \in RefreshTokenErrors

\* The same log with the invalid and the expired refresh token exchanged.
SwapRefreshTokenError(log) ==
    [i \in 1..Len(log) |->
        IF IsRefreshTokenError(log[i])
        THEN [log[i] EXCEPT !.err = IF @ = ErrInvalidRefreshToken
                                     THEN ErrExpiredRefreshToken
                                     ELSE ErrInvalidRefreshToken]
        ELSE log[i]]

RefreshTokenRejected == \E i \in 1..Len(calls) : IsRefreshTokenError(calls[i])

\* C6: when the manager rejects the refresh token as invalid or as expired,
\* GetAccessToken returns InvalidGrant, and HandleTokenRequest has a run that
\* differs only in which of the two the manager answered and that returns
\* the same values and writes the same response: that of InvalidGrant.
C6_RefreshErrorsAlike ==
    /\ (op = "GetAccessToken" /\ RefreshTokenRejected)
            => out.err = ErrInvalidGrant /\ out.ti = NoTokenInfo
    /\ (op = "HandleTokenRequest" /\ RefreshTokenRejected)
            => /\ out.fail = ErrInvalidGrant
               /\ \E e \in GetErrorData(ErrInvalidGrant) :
                     w.body = e.data /\ w.status = e.statusCode
               /\ \E res \in HandleTokenRequest(NewWriter, in) :
                     /\ res.calls = SwapRefreshTokenError(calls)
                     /\ res.calls # calls
                     /\ res.w = w
                     /\ res.err = out.err
                     /\ res.access = out.access

\* C6's case: a token request whose refresh token the manager found expired
\* when the scope check loaded it.
C6_Witness ==
    /\ op = "HandleTokenRequest"
    /\ \E i \in 1..Len(calls) :
          calls[i].fn = "LoadRefreshToken" /\ calls[i].err = ErrExpiredRefreshToken
    /\ w.body["error"] = "invalid_grant"

\* The ClientAuthorizedHandler was asked and did not let the client in: it
\* returned an error, or allowed = false.
ClientDenied ==
    \E i \in 1..Len(calls) :
        /\ calls[i].fn = "ClientAuthorizedHandler"
        /\ (calls[i].err # Nil \/ calls[i].val = "false")

\* C7 as stated: when the ClientAuthorizedHandler denies the client, by an
\* error or by allowed = false, GetAuthorizeToken returns UnauthorizedClient
\* and Manager.GenerateAuthToken is not invoked.
C7_Original ==
    (op = "GetAuthorizeToken" /\ ClientDenied)
        => /\ out.err = ErrUnauthorizedClient
           /\ ~Called(calls, "GenerateAuthToken")

\* The response of a failed token request: the JSON body and the status that
\* GetErrorData maps the cause of the failure to, and no redirect.
JSONErrorWritten ==
    /\ w.wrote
    /\ w.ContentType = "application/json;charset=UTF-8"
    /\ \E e \in GetErrorData(Cause(out.fail)) :
          w.body = e.data /\ w.status = e.statusCode
    /\ ~w.hasLocation
    /\ w.status # 302

TokenRequestFailed == op = "HandleTokenRequest" /\ out.fail # Nil

\* C8 as stated: every failure of HandleTokenRequest, the "no permission to
\* the app" sentinel included, writes a JSON error body with the status
\* mapped by GetErrorData, and no redirect.
C8_Original == TokenRequestFailed => JSONErrorWritten

\* C8 amended: every error returned by ValidationTokenRequest or by
\* GetAccessToken makes HandleTokenRequest write a JSON error body with the
\* status mapped by GetErrorData, but for an error of ValidationTokenRequest
\* whose message is "no permission to the app": that one is returned to the
\* caller and nothing is written.  No failure writes a redirect.
C8_TokenFailure ==
    TokenRequestFailed
        => /\ IF out.stage = "validation" /\ IsNoPermission(out.fail)
              THEN out.err = out.fail /\ w = NewWriter
              ELSE out.err = Nil /\ JSONErrorWritten
           /\ ~w.hasLocation
           /\ w.status # 302
           /\ out.access = ""

\* C8's case: a handler of the grant dispatch failed with the sentinel, and
\* the token request was answered with the JSON body of a server error.
C8_Witness ==
    /\ TokenRequestFailed
    /\ out.stage = "grant"
    /\ out.fail.kind = NoPermissionText
    /\ w.wrote
    /\ w.status = 500
    /\ w.body["error"] = "server_error"

\* C9 as stated: a failure of HandleAuthorizeRequest after the validation of
\* the request (of the user authorization, of the AuthorizeScopeHandler, of
\* the AccessTokenExpHandler, of GetAuthorizeToken), other than the sentinel,
\* is answered by a 302 to the redirect URI that carries the error, and no
\* error is returned.  Stated for the requests that name a redirect URI
\* that parses.
C9_Original ==
    (/\ op = "HandleAuthorizeRequest"
     /\ out.stage \in {"user", "scope", "exp", "grant"}
     /\ ~IsNoPermission(out.fail)
     /\ in.redirect_uri # EmptyURI
     /\ Parse(in.redirect_uri).ok)
        => /\ out.err = Nil
           /\ w.status = 302
           /\ w.hasLocation
           /\ s.ResponseErrorHandler = "nil"
                 => /\ Contains(w.Location, "error")
                    /\ Contains(w.Location, "error_description")
           /\ in.state # "" => Contains(w.Location, in.state)

\* C10: with the defaults of NewServer in place, HandleAuthorizeRequest
\* invokes no operation of the manager, and a password grant ends in
\* ValidationTokenRequest with an error: the manager generates no token.
C10_DenyByDefault ==
    /\ (op = "HandleAuthorizeRequest" /\ s.UserAuthorizationHandler = "default")
            => NoneCalled(calls, ManagerOps)
    /\ (/\ op = "HandleTokenRequest"
        /\ in.grant_type = PasswordCredentials
        /\ s.PasswordAuthorizationHandler = "default")
            => /\ ~out.panic
               /\ out.stage = "validation"
               /\ out.fail # Nil
               /\ out.access = ""
               /\ NoneCalled(calls, ManagerOps)

\* C10's case: a complete password grant reached the default
\* PasswordAuthorizationHandler, which denied it, on a Server whose
\* CheckUserPermHandler is set.
C10_Witness ==
    /\ op = "HandleTokenRequest"
    /\ in.grant_type = PasswordCredentials
    /\ s.PasswordAuthorizationHandler = "default"
    /\ s.CheckUserPermHandler = "set"
    /\ \E i \in 1..Len(calls) :
          /\ calls[i].fn = "PasswordAuthorizationHandler"
          /\ calls[i].err = ErrAccessDenied
    /\ out.fail = ErrAccessDenied

\* C11 as stated: whichever optional handlers are left nil, a request of the
\* token or of the authorization endpoint completes (with a response or an
\* error); none aborts in the call of a nil function.
C11_Original ==
    op \in {"HandleTokenRequest", "HandleAuthorizeRequest"} => ~out.panic

\* GetErrorData was called with an error kind of the static table.
TableErrorMapped == op = "GetErrorData" /\ InTable(in.err)

\* The identifier, description and status the table gives the kind.
TableValuesReturned ==
    /\ {"error", "error_description"} \subseteq DOMAIN out.data
    /\ out.data["error"] = in.err.kind
    /\ out.data["error_description"] = Descriptions[in.err.kind]
    /\ out.statusCode = StatusCodes[in.err.kind]

\* C12 as stated: for an error kind of the table GetErrorData returns the
\* kind's identifier, its table description and its table status, on every
\* Server, one with a ResponseErrorHandler included, after any earlier calls.
C12_Original == TableErrorMapped => TableValuesReturned

\* C12 amended: on a Server without a ResponseErrorHandler, GetErrorData of
\* a table kind returns exactly the identifier, the table description and
\* the table status, no other field and no header, after any earlier calls
\* and without asking the InternalErrorHandler; with a ResponseErrorHandler
\* the handler is called once with that response and GetErrorData returns
\* what the handler left in it.
C12_TableErrorData ==
    TableErrorMapped
        => /\ ~Called(calls, "InternalErrorHandler")
           /\ s.ResponseErrorHandler = "nil"
                => /\ TableValuesReturned
                   /\ DOMAIN out.data = {"error", "error_description"}
                   /\ out.header = {}
                   /\ calls = <<>>
           /\ s.ResponseErrorHandler # "nil"
                => /\ Names(calls) = <<"ResponseErrorHandler">>
                   /\ calls[1].a = <<in.err.kind>>
                   /\ \E re \in ResponseErrorOutcomes(
                                  [ZeroResponse EXCEPT
                                      !.Error = in.err,
                                      !.Description = Descriptions[in.err.kind],
                                      !.StatusCode = StatusCodes[in.err.kind]]) :
                         LET e == ErrorData(re, calls) IN
                         /\ out.data = e.data
                         /\ out.statusCode = e.statusCode
                         /\ out.header = e.header

\* C12's case: access_denied mapped on a Server that has an
\* InternalErrorHandler and no ResponseErrorHandler.
C12_Witness ==
    /\ TableErrorMapped
    /\ in.err = ErrAccessDenied
    /\ s.InternalErrorHandler = "set"
    /\ s.ResponseErrorHandler = "nil"
    /\ out.statusCode = 403

\* The root cause GetAccessToken gives the error the manager answered the
\* authorization_code grant with.
CodeGrantCause(e) == IF e = ErrInvalidAuthorizeCode THEN ErrInvalidGrant ELSE Cause(e)

\* C13: when Manager.GenerateAccessToken fails in the authorization_code
\* grant, GetAccessToken returns no token and an error whose root cause is
\* InvalidGrant for InvalidAuthorizeCode, InvalidClient for InvalidClient and
\* the manager's own error kind for any other error; HandleTokenRequest
\* answers with that cause and no access token.
C13_CodeGrantErrors ==
    \A i \in 1..Len(calls) :
        (calls[i].fn = "GenerateAccessToken" /\ calls[i].err # Nil)
            => /\ (op = "GetAccessToken" /\ in.gt = AuthorizationCode)
                    => /\ out.ti = NoTokenInfo
                       /\ out.err # Nil
                       /\ Cause(out.err) = CodeGrantCause(calls[i].err)
               /\ (op = "HandleTokenRequest" /\ in.grant_type = AuthorizationCode)
                    => /\ out.access = ""
                       /\ Cause(out.fail) = CodeGrantCause(calls[i].err)

\* C13's case: the manager failed the code grant with an error that is no
\* protocol error, and GetAccessToken returned it with a stack.
C13_Witness ==
    /\ op = "GetAccessToken"
    /\ in.gt = AuthorizationCode
    /\ \E i \in 1..Len(calls) :
          calls[i].fn = "GenerateAccessToken" /\ calls[i].err = ErrInternal
    /\ out.err = WithStack(ErrInternal)

\* The UserAuthorizationHandler returned an empty user ID and no error.
UserAlreadyAnswered ==
    /\ op = "HandleAuthorizeRequest"
    /\ \E i \in 1..Len(calls) :
          /\ calls[i].fn = "UserAuthorizationHandler"
          /\ calls[i].val = ""
          /\ calls[i].err = Nil

\* C14: when the UserAuthorizationHandler returns an empty user ID and no
\* error, HandleAuthorizeRequest returns nil; that call is the last one it
\* made (no other handler, no Manager operation), and the engine has set no
\* header and written no status.
C14_EmptyUserStops ==
    UserAlreadyAnswered
        => /\ out.err = Nil
           /\ ~out.panic
           /\ calls[Len(calls)].fn = "UserAuthorizationHandler"
           /\ NoneCalled(calls, (Handlers \ {"UserAuthorizationHandler"}) \cup ManagerOps)
           /\ w = NewWriter

\* C14's case: such an answer on a Server whose AuthorizeScopeHandler is
\* set, for a request that names its redirect URI.
C14_Witness ==
    /\ UserAlreadyAnswered
    /\ s.AuthorizeScopeHandler = "set"
    /\ in.redirect_uri = <<"https://app/cb">>
    /\ in.response_type = Code

\* GetRedirectURI built the redirect URI of a code response.
CodeRedirectBuilt == op = "GetRedirectURI" /\ in.req.ResponseType = Code /\ out.ok

\* The query string of the built URI, as a parser of it reads it, holds the
\* code and the state.
CodeAndStateInQuery ==
    LET q == Query(Parse(out.uri)) IN
    /\ "code" \in DOMAIN q
    /\ q["code"] = in.data["code"]
    /\ in.req.State # "" => ("state" \in DOMAIN q /\ q["state"] = in.req.State)

CodeRedirected ==
    /\ op = "HandleAuthorizeRequest"
    /\ in.response_type = Code
    /\ out.fail = Nil
    /\ w.status = 302

TokenRedirectBuilt == op = "GetRedirectURI" /\ in.req.ResponseType = Token /\ out.ok

\* uri has an empty query string and a fragment in which access_token is
\* followed by "=" and the value tok.
TokenInFragment(uri, toks) ==
    LET u == Parse(uri) IN
    /\ u.RawQuery = <<>>
    /\ Query(u) = EmptyMap
    /\ u.Fragment # <<>>
    /\ \E i \in 1..(Len(u.Fragment) - 2) :
          /\ u.Fragment[i] = "access_token"
          /\ u.Fragment[i + 1] = "="
          /\ u.Fragment[i + 2] \in toks
    /\ ~Contains(Before(uri, "#"), "access_token")

\* C16: for response_type token and every redirect URI that parses, the URI
\* GetRedirectURI builds has an empty query string and a fragment that
\* holds access_token with the token's value; so has the Location of a
\* successful HandleAuthorizeRequest for a token.
C16_TokenInFragment ==
    /\ TokenRedirectBuilt => TokenInFragment(out.uri, {in.data["access_token"]})
    /\ (/\ op = "HandleAuthorizeRequest"
        /\ in.response_type = Token
        /\ out.fail = Nil
        /\ w.status = 302)
            => TokenInFragment(w.Location, {ti.access : ti \in TokenInfos})

\* C16's case: a token response for a URI that carries a query, with a
\* state that needs escaping.
C16_Witness ==
    /\ TokenRedirectBuilt
    /\ in.req.RedirectURI = <<"https://app/cb", "?", "k", "=", "v">>
    /\ in.req.State = "a b"
    /\ in.data["access_token"] = "tok1"
    /\ Before(out.uri, "#") = <<"https://app/cb">>
    /\ Contains(out.uri, "a%20b")

\* The core keys GetTokenData sets for the token: scope and refresh_token
\* only when the token has them.
CoreKeys(ti) ==
    {"access_token", "token_type", "expires_in"}
        \cup (IF ti.scope # "" THEN {"scope"} ELSE {})
        \cup (IF ti.refresh # "" THEN {"refresh_token"} ELSE {})

\* C17: the result of GetTokenData holds the token's access_token, the
\* Config's token_type, expires_in in whole seconds, and scope and
\* refresh_token when the token has them, whatever the
\* ExtensionFieldsHandler returned for these keys; every other key of the
\* extension is in the result with the extension's value, and nothing else.
C17_CoreFieldsWin ==
    op = "GetTokenData"
        => /\ out.data["access_token"] = in.ti.access
           /\ out.data["token_type"] = s.Config.TokenType
           /\ out.data["expires_in"] * Second <= in.ti.expires
           /\ in.ti.expires < (out.data["expires_in"] + 1) * Second
           /\ in.ti.scope # "" => out.data["scope"] = in.ti.scope
           /\ in.ti.refresh # "" => out.data["refresh_token"] = in.ti.refresh
           /\ DOMAIN out.data = CoreKeys(in.ti) \cup DOMAIN out.ext
           /\ \A k \in DOMAIN out.ext \ CoreKeys(in.ti) : out.data[k] = out.ext[k]
           /\ s.ExtensionFieldsHandler = "nil" => out.ext = EmptyMap

\* C17's case: an extension that names access_token and a key of its own,
\* for a token that has a scope and a refresh token.
C17_Witness ==
    /\ op = "GetTokenData"
    /\ in.ti.refresh = "ref2"
    /\ "access_token" \in DOMAIN out.ext
    /\ out.ext["access_token"] # in.ti.access
    /\ out.data["access_token"] = "tok2"
    /\ out.data["extra"] = "x"

\* The Authorization header of the request starts with "Bearer ".
BearerHeader == in.Authorization # <<>> /\ in.Authorization[1] = "Bearer "

\* What follows "Bearer " in the header.
BearerRemainder == IF Len(in.Authorization) >= 2 THEN in.Authorization[2] ELSE ""

\* The token the request carries, by the rule of BearerAuth.
CarriedToken == IF BearerHeader THEN BearerRemainder ELSE in.access_token

\* C18: BearerAuth returns what follows "Bearer " in the Authorization
\* header when the header has that prefix (an empty remainder too: the form
\* field is not read), the access_token form field otherwise, and found
\* exactly when that token is not empty.  ValidationBearerToken fails with
\* InvalidAccessToken without a call of Manager.LoadAccessToken exactly when
\* no token was found; otherwise it calls LoadAccessToken once with the
\* token and returns what the manager returned.
C18_BearerToken ==
    /\ op = "BearerAuth"
            => /\ out.token = CarriedToken
               /\ out.ok <=> (out.token # "")
    /\ op = "ValidationBearerToken"
            => /\ (out.err = ErrInvalidAccessToken /\ ~Called(calls, "LoadAccessToken"))
                    <=> (CarriedToken = "")
               /\ CarriedToken # ""
                    => /\ Names(calls) = <<"LoadAccessToken">>
                       /\ calls[1].a = <<CarriedToken>>
                       /\ out.err = calls[1].err
                       /\ out.ti.access = calls[1].val

\* C18's case: a header that is "Bearer " and nothing more, with an
\* access_token form field that is not read.
C18_Witness ==
    /\ op = "ValidationBearerToken"
    /\ in.Authorization = <<"Bearer ">>
    /\ in.access_token = "tok2"
    /\ out.err = ErrInvalidAccessToken
    /\ calls = <<>>

\* ValidationTokenRequest turned the token request down with InvalidRequest
\* or UnsupportedGrantType.
TokenRequestRejected ==
    /\ op = "HandleTokenRequest"
    /\ out.stage = "validation"
    /\ Cause(out.fail) \in {ErrInvalidRequest, ErrUnsupportedGrantType}

\* ValidationAuthorizeRequest failed.
AuthorizeRequestRejected == op = "HandleAuthorizeRequest" /\ out.stage = "validation"

\* The method is not allowed, or there is no grant_type.
RejectedAtOnce ==
    \/ ~(in.method = "POST" \/ (s.Config.AllowGetAccessRequest /\ in.method = "GET"))
    \/ in.grant_type = ""

\* C19 as stated: when ValidationTokenRequest fails with InvalidRequest or
\* UnsupportedGrantType, or ValidationAuthorizeRequest fails, no collaborator
\* (ClientInfoHandler, PasswordAuthorizationHandler, CheckUserPermHandler,
\* the manager) has been invoked for the request.
C19_Original ==
    (TokenRequestRejected \/ AuthorizeRequestRejected)
        => NoneCalled(calls, {"ClientInfoHandler", "PasswordAuthorizationHandler",
                              "CheckUserPermHandler"} \cup ManagerOps)

\* C19 amended: such a failure of ValidationTokenRequest comes before any
\* call of PasswordAuthorizationHandler, of CheckUserPermHandler and of the
\* manager; for a bad method or a missing grant_type it comes before the
\* ClientInfoHandler too, while for a missing field of the grant the
\* ClientInfoHandler has been invoked, once, and has let the client in.  A
\* failure of ValidationAuthorizeRequest comes before every handler and
\* manager call; HandleAuthorizeRequest returns it and writes nothing.
C19_ValidationFailures ==
    /\ TokenRequestRejected
            => /\ NoneCalled(calls, {"PasswordAuthorizationHandler", "CheckUserPermHandler"}
                                        \cup ManagerOps)
               /\ RejectedAtOnce => ~Called(calls, "ClientInfoHandler")
               /\ ~RejectedAtOnce
                    => /\ Cardinality({i \in 1..Len(calls) :
                                          calls[i].fn = "ClientInfoHandler"}) = 1
                       /\ \A i \in 1..Len(calls) :
                             calls[i].fn = "ClientInfoHandler" => calls[i].err = Nil
    /\ AuthorizeRequestRejected
            => /\ NoneCalled(calls, Handlers \cup ManagerOps)
               /\ out.err = out.fail
               /\ w = NewWriter

\* C19's case: a password grant without a password, on a Server whose
\* PasswordAuthorizationHandler is set.
C19_Witness ==
    /\ TokenRequestRejected
    /\ in.grant_type = PasswordCredentials
    /\ in.username = "alice"
    /\ in.password = ""
    /\ s.PasswordAuthorizationHandler = "set"
    /\ Called(calls, "ClientInfoHandler")
    /\ out.fail = ErrInvalidRequest

\* The client the ClientInfoHandler authenticated for the request.
AuthenticatedClients ==
    {calls[i].val : i \in {j \in 1..Len(calls) :
                              calls[j].fn = "ClientInfoHandler" /\ calls[j].err = Nil}}

\* C20 as stated: in the password grant, when the manager is asked for a
\* token, the client ID of its TokenGenerateRequest is the one the
\* ClientInfoHandler authenticated, it is the client ID the
\* CheckUserPermHandler was handed, and the handler approved that user for
\* that client.
C20_Original ==
    (op = "HandleTokenRequest" /\ in.grant_type = PasswordCredentials)
        => \A i \in 1..Len(calls) :
              calls[i].fn = "GenerateAccessToken"
                => /\ calls[i].a[2] \in AuthenticatedClients
                   /\ \A j \in 1..Len(calls) :
                         calls[j].fn = "CheckUserPermHandler"
                            => calls[j].a[2] = calls[i].a[2]
                   /\ \E j \in 1..(i - 1) :
                         /\ calls[j].fn = "CheckUserPermHandler"
                         /\ calls[j].err = Nil
                         /\ calls[j].a = <<calls[i].a[3], calls[i].a[2]>>

====
